---- MODULE Spec2Model ----
(***************************************************************************)
(* A model of streamlit_app.py (BD Day - Contact Lockout).                 *)
(*                                                                         *)
(* Strings are sequences of one-character strings, so that the             *)
(* normalisers, the digest and the confirmation signature are computed the *)
(* way the code computes them.  A worksheet is a sequence of rows, a row a *)
(* sequence of cells; row 1 of the sheet (the header) is not part of the   *)
(* sequence, so data row i of the model is sheet row i + 1.                *)
(***************************************************************************)
EXTENDS Integers, Sequences, FiniteSets, TLC

\* ------------------------------------------------------------------ bounds
MaxRows == 2
MaxArchive == 2
MaxInitRows == 3
MaxClock == 1
TicksPerDay == 1
MaxSnapshot == 2
MaxLegacyRows == 1
MaxTextLen == 4

\* --------------------------------------------------------------- constants
FUZZY_THRESHOLD == 82
HAS_RAPIDFUZZ == TRUE

\* ------------------------------------------------------------ text helpers
IsSpace(c) == c = " "

IsDigit(c) == c \in {"0", "1", "2"}

LowerChar(c) == IF c = "A" THEN "a" ELSE IF c = "B" THEN "b" ELSE c

Lower(s) == [i \in 1..Len(s) |-> LowerChar(s[i])]

RECURSIVE LStrip(_)
LStrip(s) == IF s # <<>> /\ IsSpace(Head(s)) THEN LStrip(Tail(s)) ELSE s

RECURSIVE RStrip(_)
RStrip(s) ==
  IF s # <<>> /\ IsSpace(s[Len(s)]) THEN RStrip(SubSeq(s, 1, Len(s) - 1)) ELSE s

Strip(s) == RStrip(LStrip(s))

\* str.split(): the maximal runs of non-space characters, in order.
RECURSIVE SplitFrom(_, _, _)
SplitFrom(s, cur, acc) ==
  IF s = <<>>
  THEN IF cur = <<>> THEN acc ELSE Append(acc, cur)
  ELSE IF IsSpace(Head(s))
       THEN SplitFrom(Tail(s), <<>>, IF cur = <<>> THEN acc ELSE Append(acc, cur))
       ELSE SplitFrom(Tail(s), Append(cur, Head(s)), acc)

Split(s) == SplitFrom(s, <<>>, <<>>)

\* " ".join(tokens)
RECURSIVE Join(_)
Join(toks) ==
  IF toks = <<>> THEN <<>>
  ELSE IF Len(toks) = 1 THEN toks[1]
  ELSE toks[1] \o <<" ">> \o Join(Tail(toks))

\* Line 40 without split() and join(): inner whitespace stays as typed.
normalize_text_no_split(x) == IF x = <<>> THEN <<>> ELSE Lower(Strip(x))

normalize_text(x) == IF x = <<>> THEN <<>> ELSE Join(Split(Lower(Strip(x))))

RECURSIVE Digits(_)
Digits(p) ==
  IF p = <<>> THEN <<>>
  ELSE IF IsDigit(Head(p)) THEN <<Head(p)>> \o Digits(Tail(p))
  ELSE Digits(Tail(p))

normalize_phone(p) == IF p = <<>> THEN <<>> ELSE Digits(p)

\* The fallback salt of get_salt(): never empty.
get_salt == <<"$">>

\* SHA-256 as an injective digest: "#" followed by the digested text.
sha256_hex(value) == IF value = <<>> THEN <<>> ELSE <<"#">> \o value

\* ------------------------------------------------- fuzz.token_set_ratio
\* Code points of the characters the model uses, for sorted().
CharCode(c) ==
  CASE c = " " -> 32 [] c = "#" -> 35 [] c = "$" -> 36 [] c = "-" -> 45
    [] c = "0" -> 48 [] c = "1" -> 49 [] c = "2" -> 50
    [] c = "A" -> 65 [] c = "B" -> 66
    [] c = "a" -> 97 [] c = "b" -> 98 [] c = "c" -> 99
    [] c = "|" -> 124 [] OTHER -> 126

RECURSIVE LexLess(_, _)
LexLess(s, t) ==
  IF t = <<>> THEN FALSE
  ELSE IF s = <<>> THEN TRUE
  ELSE IF CharCode(Head(s)) # CharCode(Head(t))
       THEN CharCode(Head(s)) < CharCode(Head(t))
       ELSE LexLess(Tail(s), Tail(t))

RECURSIVE SortedTokens(_)
SortedTokens(S) ==
  IF S = {} THEN <<>>
  ELSE LET m == CHOOSE x \in S : \A y \in S \ {x} : LexLess(x, y)
       IN  <<m>> \o SortedTokens(S \ {m})

RECURSIVE LCS(_, _)
LCS(s, t) ==
  IF s = <<>> \/ t = <<>> THEN 0
  ELSE IF Head(s) = Head(t) THEN 1 + LCS(Tail(s), Tail(t))
  ELSE LET x == LCS(Tail(s), t)
           y == LCS(s, Tail(t))
       IN  IF x >= y THEN x ELSE y

indel_distance(s, t) == Len(s) + Len(t) - 2 * LCS(s, t)

\* 100 - 100 * dist / lensum, rounded down (the callers compare with an integer).
norm_distance(dist, lensum) ==
  IF lensum = 0 THEN 100 ELSE (100 * (lensum - dist)) \div lensum

Max3(a, b, c) ==
  LET m == IF a >= b THEN a ELSE b IN IF m >= c THEN m ELSE c

token_set_ratio(s1, s2) ==
  LET toks1 == Split(s1)
      toks2 == Split(s2)
      tokens_a == {toks1[i] : i \in 1..Len(toks1)}
      tokens_b == {toks2[i] : i \in 1..Len(toks2)}
      intersect == tokens_a \cap tokens_b
      diff_ab == tokens_a \ tokens_b
      diff_ba == tokens_b \ tokens_a
      diff_ab_joined == Join(SortedTokens(diff_ab))
      diff_ba_joined == Join(SortedTokens(diff_ba))
      ab_len == Len(diff_ab_joined)
      ba_len == Len(diff_ba_joined)
      sect_len == Len(Join(SortedTokens(intersect)))
      gap == IF sect_len # 0 THEN 1 ELSE 0
      sect_ab_len == sect_len + gap + ab_len
      sect_ba_len == sect_len + gap + ba_len
      result == norm_distance(indel_distance(diff_ab_joined, diff_ba_joined),
                              sect_ab_len + sect_ba_len)
      sect_ab_ratio == norm_distance(gap + ab_len, sect_len + sect_ab_len)
      sect_ba_ratio == norm_distance(gap + ba_len, sect_len + sect_ba_len)
  IN  IF s1 = <<>> \/ s2 = <<>> THEN 0
      ELSE IF tokens_a = {} \/ tokens_b = {} THEN 0
      ELSE IF intersect # {} /\ (diff_ab = {} \/ diff_ba = {}) THEN 100
      ELSE IF sect_len = 0 THEN result
      ELSE Max3(result, sect_ab_ratio, sect_ba_ratio)

\* ---------------------------------------------------------------- the sheet
\* Columns of the Locks worksheet, in the order of the header (line 181).
ColTimestamp == 1
ColDate == 2
ColCompany == 3
ColContactName == 4
ColBrand == 5
ColLockedBy == 6
ColNotes == 7
ColEmailHash == 8
ColPhoneHash == 9
\* The column "Dup Today?" the today view adds (line 539).
ColDupToday == 10

\* Line 269 (and the header of line 181).
expected_cols ==
  <<"Timestamp", "Date", "Company", "Contact Name", "Brand", "Locked By", "Notes",
    "EmailHash", "PhoneHash">>

\* The header of a sheet of before the digests (line 184: Email and Phone).
LEGACY_HEADER ==
  <<"Timestamp", "Date", "Company", "Contact Name", "Email", "Phone", "Brand",
    "Locked By", "Notes">>

\* list.index(x) + 1: the column of the first cell of hdr that holds x.
IndexOf(hdr, x) ==
  CHOOSE i \in 1..Len(hdr) : hdr[i] = x /\ \A j \in 1..(i - 1) : hdr[j] # x

\* The cell of a row under the column named col; "" where the sheet has none.
Cell(hdr, row, col) ==
  IF col \in {hdr[i] : i \in 1..Len(hdr)} /\ IndexOf(hdr, col) <= Len(row)
  THEN row[IndexOf(hdr, col)]
  ELSE <<>>

\* Lines 267-273: ws.get_all_records() keys every row by the header, and the
\* snapshot has the expected columns, empty where the sheet lacks one.
snapshot_row(hdr, row) ==
  <<Cell(hdr, row, "Timestamp"), Cell(hdr, row, "Date"), Cell(hdr, row, "Company"),
    Cell(hdr, row, "Contact Name"), Cell(hdr, row, "Brand"), Cell(hdr, row, "Locked By"),
    Cell(hdr, row, "Notes"), Cell(hdr, row, "EmailHash"), Cell(hdr, row, "PhoneHash")>>

RECURSIVE keyed_rows(_, _)
keyed_rows(hdr, rows) ==
  IF rows = <<>> THEN <<>>
  ELSE <<snapshot_row(hdr, Head(rows))>> \o keyed_rows(hdr, Tail(rows))

\* Under the expected header a row of nine cells is its own record.
get_all_records(hdr, rows) ==
  IF hdr = expected_cols /\ \A i \in 1..Len(rows) : Len(rows[i]) = Len(expected_cols)
  THEN rows
  ELSE keyed_rows(hdr, rows)

\* ws.delete_columns(idx) on the header or on a row.
delete_columns(row, idx) ==
  IF idx \in 1..Len(row)
  THEN SubSeq(row, 1, idx - 1) \o SubSeq(row, idx + 1, Len(row))
  ELSE row

\* The derived columns of the snapshot (lines 277-279).
company_n_of(row) == normalize_text(row[ColCompany])
email_h_of(row) == row[ColEmailHash]
phone_h_of(row) == row[ColPhoneHash]

SeqToSet(q) == {q[i] : i \in 1..Len(q)}

\* drop_duplicates(): the first occurrence of each row value is kept.
RECURSIVE DropDuplicates(_, _)
DropDuplicates(q, seen) ==
  IF q = <<>> THEN <<>>
  ELSE IF Head(q) \in seen THEN DropDuplicates(Tail(q), seen)
  ELSE <<Head(q)>> \o DropDuplicates(Tail(q), seen \cup {Head(q)})

\* sort_values("Timestamp", ascending=False), ties in their given order.
RECURSIVE SortByTimestampDesc(_)
SortByTimestampDesc(q) ==
  IF q = <<>> THEN <<>>
  ELSE LET i == CHOOSE i \in 1..Len(q) :
                  /\ \A j \in 1..Len(q) : q[j][ColTimestamp] <= q[i][ColTimestamp]
                  /\ \A j \in 1..(i - 1) : q[j][ColTimestamp] < q[i][ColTimestamp]
       IN  <<q[i]>> \o SortByTimestampDesc(SubSeq(q, 1, i - 1) \o SubSeq(q, i + 1, Len(q)))

RECURSIVE ConcatAll(_)
ConcatAll(parts) == IF parts = <<>> THEN <<>> ELSE Head(parts) \o ConcatAll(Tail(parts))

\* The company keys of df that score at least FUZZY_THRESHOLD against company_n.
matched_vals(df, company_n) ==
  {comp \in {company_n_of(df[i]) : i \in 1..Len(df)} :
     comp # <<>> /\ token_set_ratio(company_n, comp) >= FUZZY_THRESHOLD}

\* find_duplicates without the tests "if email_hash", "if phone_hash",
\* "if company_n" and "if not comp: continue" of lines 356, 360, 364 and 368.
find_hits_unguarded(df, company_n, email_hash, phone_hash) ==
  LET exact_email == SelectSeq(df, LAMBDA r : email_h_of(r) = email_hash)
      exact_phone == SelectSeq(df, LAMBDA r : phone_h_of(r) = phone_hash)
      mv == {comp \in {company_n_of(df[i]) : i \in 1..Len(df)} :
               token_set_ratio(company_n, comp) >= FUZZY_THRESHOLD}
      fuzzy_df == SelectSeq(df, LAMBDA r : company_n_of(r) \in mv)
      h1 == IF exact_email # <<>>
            THEN <<[label |-> "Exact email (hashed)", rows |-> exact_email]>>
            ELSE <<>>
      h2 == IF exact_phone # <<>>
            THEN <<[label |-> "Exact phone (hashed)", rows |-> exact_phone]>>
            ELSE <<>>
      h3 == IF HAS_RAPIDFUZZ /\ mv # {} /\ fuzzy_df # <<>>
            THEN <<[label |-> "Fuzzy company", rows |-> fuzzy_df]>>
            ELSE <<>>
  IN  IF df = <<>> THEN <<>> ELSE h1 \o h2 \o h3

\* find_duplicates: the hit groups, in the order email, phone, company; df[mask]
\* is SelectSeq, the rows of df that satisfy the mask, in order.
find_hits(df, company_n, email_hash, phone_hash) ==
  LET exact_email == SelectSeq(df, LAMBDA r : email_h_of(r) = email_hash)
      exact_phone == SelectSeq(df, LAMBDA r : phone_h_of(r) = phone_hash)
      mv == matched_vals(df, company_n)
      fuzzy_df == SelectSeq(df, LAMBDA r : company_n_of(r) \in mv)
      h1 == IF email_hash # <<>> /\ exact_email # <<>>
            THEN <<[label |-> "Exact email (hashed)", rows |-> exact_email]>>
            ELSE <<>>
      h2 == IF phone_hash # <<>> /\ exact_phone # <<>>
            THEN <<[label |-> "Exact phone (hashed)", rows |-> exact_phone]>>
            ELSE <<>>
      h3 == IF company_n # <<>> /\ HAS_RAPIDFUZZ /\ mv # {} /\ fuzzy_df # <<>>
            THEN <<[label |-> "Fuzzy company", rows |-> fuzzy_df]>>
            ELSE <<>>
  IN  IF df = <<>> THEN <<>> ELSE h1 \o h2 \o h3

find_combined(df, company_n, email_hash, phone_hash) ==
  LET hits == find_hits(df, company_n, email_hash, phone_hash)
  IN  SortByTimestampDesc(
        DropDuplicates(ConcatAll([i \in 1..Len(hits) |-> hits[i].rows]), {}))

find_duplicates(df, company_n, email_hash, phone_hash) ==
  [hits |-> find_hits(df, company_n, email_hash, phone_hash),
   combined |-> find_combined(df, company_n, email_hash, phone_hash)]

\* --------------------------------------------------------- the today view
\* DataFrame.duplicated(subset=[col], keep="last") on the values of the column.
duplicated_keep_last(keys) ==
  [i \in 1..Len(keys) |-> \E j \in (i + 1)..Len(keys) : keys[j] = keys[i]]

\* DataFrame.duplicated(subset=[col], keep="first"): a row is marked when an
\* earlier row has its value; empty values are values like any other.
duplicated(keys) ==
  [i \in 1..Len(keys) |-> \E j \in 1..(i - 1) : keys[j] = keys[i]]

\* Line 517, with no filter typed.
today_df_of(df, today) == SelectSeq(df, LAMBDA r : r[ColDate] = today)

\* Lines 515-550: what the today view shows of snapshot df on day today: the
\* rows of the day, each with its "Dup Today?" mark as a last column, by
\* Timestamp descending.  The column is made only for a day that has rows
\* (line 531), and line 545 selects it all the same: KeyError.
today_view(df, today) ==
  LET t == today_df_of(df, today)
      n == Len(t)
      by_email == duplicated([i \in 1..n |-> email_h_of(t[i])])
      by_phone == duplicated([i \in 1..n |-> phone_h_of(t[i])])
      by_company == duplicated([i \in 1..n |-> company_n_of(t[i])])
  IN  IF df = <<>> THEN [error |-> FALSE, rows |-> <<>>]
      ELSE IF t = <<>> THEN [error |-> TRUE, rows |-> <<>>]
      ELSE [error |-> FALSE,
            rows |-> SortByTimestampDesc(
                       [i \in 1..n |->
                          Append(t[i], by_email[i] \/ by_phone[i] \/ by_company[i])])]

\* -------------------------------------------------------------- the state
Sessions == {"s1", "s2"}

None == <<"None">>

\* The values a user types into each field of lock_form.
Companies == {<<>>, <<"a">>, <<"A">>, <<"b">>}
ContactNames == {<<>>, <<"a">>, <<"b">>}
Emails == {<<>>, <<"a">>, <<"b">>}
Phones == {<<>>, <<"1">>, <<"2">>}
NotesTexts == {<<>>, <<"a">>}

EmptyForm ==
  [company |-> <<>>, contact_name |-> <<>>, email |-> <<>>, phone |-> <<>>,
   notes |-> <<>>]

BaseForm ==
  [company |-> <<"a">>, contact_name |-> <<"a">>, email |-> <<"a">>,
   phone |-> <<"1">>, notes |-> <<>>]

\* The forms a session submits: BaseForm with at most one field retyped.
Forms ==
  {[BaseForm EXCEPT !.company = v] : v \in Companies}
    \cup {[BaseForm EXCEPT !.contact_name = v] : v \in ContactNames}
    \cup {[BaseForm EXCEPT !.email = v] : v \in Emails}
    \cup {[BaseForm EXCEPT !.phone = v] : v \in Phones}
    \cup {[BaseForm EXCEPT !.notes = v] : v \in NotesTexts}
    \cup {[BaseForm EXCEPT !.email = <<>>, !.phone = <<>>]}

\* What the deployment sets as ADMIN_PIN, and what a user types as Admin PIN.
PinSecrets == {<<>>, <<"1">>}
PinsEntered == {<<>>, <<"1">>, <<"2">>}

\* The profile a bookmarked URL carries (name, brand); both empty without one.
BRANDS == {<<"D">>}
ProfileNameOf(s) == IF s = "s1" THEN <<"a">> ELSE <<"b">>

Events ==
  {"view", "submit", "reset_today", "reset_all", "archive_today", "archive_all"}

VARIABLES
  ledger,            \* the data rows of the Locks worksheet
  archive,           \* the data rows of the Archive worksheet
  archive_header,    \* the header of the Archive worksheet, <<>> while it is absent
  now,               \* the store-local clock
  admin_pin_secret,  \* ADMIN_PIN
  profile_name,      \* st.session_state["profile_name"], per session
  profile_brand,     \* st.session_state["profile_brand"]
  confirm_sig,       \* st.session_state["confirm_sig"]
  confirm_ready,     \* st.session_state["confirm_ready"]
  form,              \* the widgets company, contact_name, email, phone, notes
  admin_entered,     \* the Admin PIN widget
  pc,                \* where each session's script run stands
  event,             \* the button that started the run
  df,                \* the snapshot read at line 267
  values,            \* the rows an admin routine read with get_all_values()
  today_str,         \* the day an admin routine computed
  row_numbers,       \* the sheet rows an admin routine has still to delete
  rows_to_archive,   \* the rows an archive routine copies
  message,           \* what the run reported to the user
  armed_form,        \* history: the form whose submission last armed the gate
  surfaced,          \* history: the rows shown by the submission that armed the gate
  ledger_read,       \* whether the run has read the Locks worksheet
  matcher_calls,     \* how many times the run has called find_duplicates
  header,            \* row 1 of the Locks worksheet
  open_pc,           \* where open_sheet stands
  call_arg,          \* the argument of a function applied on its own
  call_ret           \* and what it returned

\* What no script run changes once the sheet is open.
opening == <<header, open_pc>>
call == <<call_arg, call_ret>>

vars ==
  <<ledger, archive, archive_header, now, admin_pin_secret, opening, call, profile_name,
    profile_brand, confirm_sig, confirm_ready, form, admin_entered, pc, event,
    df, values, today_str, row_numbers, rows_to_archive, message, armed_form,
    surfaced, ledger_read, matcher_calls>>

store == <<ledger, archive, archive_header>>
session_state ==
  <<profile_name, profile_brand, confirm_sig, confirm_ready, form, armed_form, surfaced>>
admin_locals == <<values, today_str, row_numbers, rows_to_archive>>
run_locals == <<pc, event, df, values, today_str, row_numbers, rows_to_archive>>

\* The state when the sessions open the app on a sheet whose Locks worksheet
\* holds the rows led.
Boot(led) ==
  /\ ledger = led
  /\ archive = <<>>
  /\ archive_header = <<>>
  /\ now = 0
  /\ admin_pin_secret \in PinSecrets
  /\ profile_name \in [Sessions -> {<<>>} \cup {ProfileNameOf(s) : s \in Sessions}]
  /\ \A s \in Sessions : profile_name[s] \in {<<>>, ProfileNameOf(s)}
  /\ profile_brand = [s \in Sessions |-> IF profile_name[s] = <<>> THEN <<>> ELSE <<"D">>]
  /\ confirm_sig = [s \in Sessions |-> None]
  /\ confirm_ready = [s \in Sessions |-> FALSE]
  /\ form = [s \in Sessions |-> EmptyForm]
  /\ admin_entered = [s \in Sessions |-> <<>>]
  /\ pc = [s \in Sessions |-> "idle"]
  /\ event = [s \in Sessions |-> "view"]
  /\ df = [s \in Sessions |-> <<>>]
  /\ values = [s \in Sessions |-> <<>>]
  /\ today_str = [s \in Sessions |-> 0]
  /\ row_numbers = [s \in Sessions |-> <<>>]
  /\ rows_to_archive = [s \in Sessions |-> <<>>]
  /\ message = [s \in Sessions |-> "none"]
  /\ armed_form = [s \in Sessions |-> EmptyForm]
  /\ surfaced = [s \in Sessions |-> {}]
  /\ ledger_read = [s \in Sessions |-> FALSE]
  /\ matcher_calls = [s \in Sessions |-> 0]

\* open_sheet has returned a Locks worksheet with the header of line 181.
Opened == header = expected_cols /\ open_pc = "open"

\* open_sheet has returned (line 204); "open_failed" remembers that its
\* migration raised, which line 202 swallows and nothing in the program keeps.
SheetOpen == open_pc \in {"open", "open_failed"}

\* No function is being applied on its own.
NoCall == call_arg = <<>> /\ call_ret = <<>>

Init == Boot(<<>>) /\ Opened /\ NoCall

\* ------------------------------------------------------------ the clock
\* now_in_tz(...).strftime("%Y-%m-%d %H:%M:%S") and .strftime("%Y-%m-%d")
ts_iso_of(ts) == ts
date_str_of(ts) == ts \div TicksPerDay

Tick ==
  /\ now < MaxClock
  /\ now' = now + 1
  /\ UNCHANGED <<store, admin_pin_secret, opening, call, session_state, admin_entered, run_locals,
                 message, ledger_read, matcher_calls>>

\* ----------------------------------------------------------- open_sheet
\* Lines 183-203, on a Locks worksheet that exists: one action per call to
\* the store.  The list headers of the code is row 1 of the sheet all along,
\* because any call that fails ends the migration.
MigrationFrame ==
  UNCHANGED <<archive, archive_header, now, admin_pin_secret, call, session_state,
              admin_entered, run_locals, message, ledger_read, matcher_calls>>

HasColumn(col) == col \in {header[i] : i \in 1..Len(header)}

\* Line 186.
OpenSheetRead ==
  /\ open_pc = "closed"
  /\ open_pc' = "add_email_hash"
  /\ UNCHANGED <<ledger, header>>
  /\ MigrationFrame

\* Lines 188-190.
AddEmailHash ==
  /\ open_pc = "add_email_hash"
  /\ header' = IF HasColumn("EmailHash") THEN header ELSE Append(header, "EmailHash")
  /\ open_pc' = "add_phone_hash"
  /\ UNCHANGED ledger
  /\ MigrationFrame

\* Lines 191-193.
AddPhoneHash ==
  /\ open_pc = "add_phone_hash"
  /\ header' = IF HasColumn("PhoneHash") THEN header ELSE Append(header, "PhoneHash")
  /\ open_pc' = "delete_phone"
  /\ UNCHANGED ledger
  /\ MigrationFrame

\* The column of every row and of the header goes.
DeleteColumn(col, next) ==
  /\ IF HasColumn(col)
     THEN /\ header' = delete_columns(header, IndexOf(header, col))
          /\ ledger' = [i \in 1..Len(ledger) |->
                          delete_columns(ledger[i], IndexOf(header, col))]
     ELSE UNCHANGED <<ledger, header>>
  /\ open_pc' = next
  /\ MigrationFrame

\* Lines 196-198 with headers.index("Phone") taken for the column number.
DeletePhoneZeroBased ==
  /\ open_pc = "delete_phone"
  /\ IF HasColumn("Phone")
     THEN /\ header' = delete_columns(header, IndexOf(header, "Phone") - 1)
          /\ ledger' = [i \in 1..Len(ledger) |->
                          delete_columns(ledger[i], IndexOf(header, "Phone") - 1)]
     ELSE UNCHANGED <<ledger, header>>
  /\ open_pc' = "delete_email"
  /\ MigrationFrame

\* Lines 196-198.
DeletePhone ==
  /\ open_pc = "delete_phone"
  /\ DeleteColumn("Phone", "delete_email")

\* Lines 199-201, and the return of line 204.
DeleteEmail ==
  /\ open_pc = "delete_email"
  /\ DeleteColumn("Email", "open")

\* The step the migration stands at calls the store.
MigrationCallPending ==
  \/ open_pc = "closed"
  \/ open_pc = "add_email_hash" /\ ~HasColumn("EmailHash")
  \/ open_pc = "add_phone_hash" /\ ~HasColumn("PhoneHash")
  \/ open_pc = "delete_phone" /\ HasColumn("Phone")
  \/ open_pc = "delete_email" /\ HasColumn("Email")

\* Lines 202-204: the call raises, "except Exception: pass", and open_sheet
\* returns the worksheet as it stands.
MigrationFails ==
  /\ MigrationCallPending
  /\ open_pc' = "open_failed"
  /\ UNCHANGED <<ledger, header>>
  /\ MigrationFrame

\* The resource cache of line 172 is emptied (a restart, "Clear cache"): the
\* next run opens the sheet again.  call_arg keeps the sheet it is handed.
Reopen ==
  /\ SheetOpen
  /\ \A s \in Sessions : pc[s] = "idle"
  /\ open_pc' = "closed"
  /\ call_arg' = <<header, ledger>>
  /\ UNCHANGED <<store, header, now, admin_pin_secret, call_ret, session_state,
                 admin_entered, run_locals, message, ledger_read, matcher_calls>>

OpenSheet ==
  \/ OpenSheetRead
  \/ AddEmailHash
  \/ AddPhoneHash
  \/ DeletePhone
  \/ DeleteEmail
  \/ MigrationFails
  \/ Reopen

\* ------------------------------------------------------------ the sidebar
\* Line 140 without bool(admin_pin_secret): an unset ADMIN_PIN equals an
\* empty entry.
is_admin_no_bool(s) == admin_entered[s] = admin_pin_secret

is_admin(s) == admin_pin_secret # <<>> /\ admin_entered[s] = admin_pin_secret

ProfileMissing(s) == profile_name[s] = <<>> \/ profile_brand[s] = <<>>

AdminEvents == {"reset_today", "reset_all", "archive_today", "archive_all"}

\* ------------------------------------------------------------ a script run
\* The profile popup (lines 229-247): a name is typed and saved, stripped.
SaveProfile(s) ==
  /\ pc[s] = "idle"
  /\ ProfileMissing(s)
  /\ \E p_name \in {ProfileNameOf(s), <<" ">>}, p_brand \in BRANDS :
       IF Strip(p_name) = <<>>
       THEN /\ message' = [message EXCEPT ![s] = "name_required"]
            /\ UNCHANGED <<profile_name, profile_brand>>
       ELSE /\ profile_name' = [profile_name EXCEPT ![s] = Strip(p_name)]
            /\ profile_brand' = [profile_brand EXCEPT ![s] = p_brand]
            /\ message' = [message EXCEPT ![s] = "profile_saved"]
  /\ ledger_read' = [ledger_read EXCEPT ![s] = FALSE]
  /\ matcher_calls' = [matcher_calls EXCEPT ![s] = 0]
  /\ UNCHANGED <<store, now, admin_pin_secret, opening, call, confirm_sig, confirm_ready, form,
                 armed_form, surfaced, admin_entered, run_locals>>

\* A widget interaction starts a run of the script: the widgets hold what the
\* user typed, and the script runs down to the snapshot read of line 267.  A
\* session without a profile stops at the popup (line 247) before the read.
BeginRun(s, ev, f, pin) ==
  /\ pc[s] = "idle"
  /\ ~ProfileMissing(s) => SheetOpen
  /\ form' = [form EXCEPT ![s] = f]
  /\ admin_entered' = [admin_entered EXCEPT ![s] = pin]
  /\ matcher_calls' = [matcher_calls EXCEPT ![s] = 0]
  /\ IF ProfileMissing(s)
     THEN /\ message' = [message EXCEPT ![s] = "profile_popup"]
          /\ ledger_read' = [ledger_read EXCEPT ![s] = FALSE]
          /\ UNCHANGED <<pc, event, df>>
     ELSE /\ message' = [message EXCEPT ![s] = "none"]
          /\ ledger_read' = [ledger_read EXCEPT ![s] = TRUE]
          /\ event' = [event EXCEPT ![s] = ev]
          /\ df' = [df EXCEPT ![s] = get_all_records(header, ledger)]
          /\ pc' = [pc EXCEPT ![s] = "loaded"]
  /\ UNCHANGED <<store, now, admin_pin_secret, opening, call, profile_name, profile_brand,
                 confirm_sig, confirm_ready, armed_form, surfaced, admin_locals>>

\* The user retypes the lock form and presses "Lock Contact".
PressLock(s, F) == \E f \in F : BeginRun(s, "submit", f, admin_entered[s])

\* Any other interaction: the script reruns with no button pressed.
Look(s) == BeginRun(s, "view", form[s], admin_entered[s])

\* The user types an Admin PIN: the script reruns.
TypePin(s, P) == \E pin \in P : BeginRun(s, "view", form[s], pin)

\* The user asks for an admin action.
PressAdmin(s, E) == \E ev \in E : BeginRun(s, ev, form[s], admin_entered[s])

\* The run ends: its locals are gone, and no button is pressed any more.
EndRun(s) ==
  /\ pc' = [pc EXCEPT ![s] = "idle"]
  /\ event' = [event EXCEPT ![s] = "view"]
  /\ df' = [df EXCEPT ![s] = <<>>]
  /\ values' = [values EXCEPT ![s] = <<>>]
  /\ today_str' = [today_str EXCEPT ![s] = 0]
  /\ row_numbers' = [row_numbers EXCEPT ![s] = <<>>]
  /\ rows_to_archive' = [rows_to_archive EXCEPT ![s] = <<>>]

\* ------------------------------------------------------------- the form
\* Lines 464-465: the digests of the submit handler.
email_hash_of(email) ==
  IF email # <<>> THEN sha256_hex(get_salt \o normalize_text(email)) ELSE <<>>

phone_hash_of(phone) ==
  IF phone # <<>> THEN sha256_hex(get_salt \o normalize_phone(phone)) ELSE <<>>

\* Line 468 with the company key left out of the signature.
sig_without_company(email_hash, phone_hash, company_n) ==
  email_hash \o <<"|">> \o phone_hash

\* Line 468 with the phone digest left out of the signature.
sig_without_phone(email_hash, phone_hash, company_n) ==
  email_hash \o <<"|">> \o company_n

\* Line 468.
sig_of(email_hash, phone_hash, company_n) ==
  email_hash \o <<"|">> \o phone_hash \o <<"|">> \o company_n

submit_sig(s) ==
  sig_of(email_hash_of(form[s].email), phone_hash_of(form[s].phone),
         normalize_text(form[s].company))

\* Line 467.
submit_hits(s) ==
  find_hits(df[s], normalize_text(form[s].company),
            email_hash_of(form[s].email), phone_hash_of(form[s].phone))

\* Lines 475-479: the rows of the combined view shown with the warning, which
\* are the rows of the hit groups (lines 376-382).
hit_rows(hits) == UNION {SeqToSet(hits[i].rows) : i \in 1..Len(hits)}

\* Lines 456-461: the message of the first validation that fails, or "ok".
validation(s) ==
  IF profile_name[s] = <<>> \/ profile_brand[s] = <<>> THEN "profile_missing"
  ELSE IF form[s].company = <<>> \/ form[s].contact_name = <<>> THEN "required_missing"
  ELSE IF form[s].email = <<>> /\ form[s].phone = <<>> THEN "contact_missing"
  ELSE "ok"

\* Line 470 with "and" for "or": only a gate that is neither armed nor holds
\* this signature blocks.
must_confirm_and(s) ==
  /\ submit_hits(s) # <<>>
  /\ (confirm_sig[s] # submit_sig(s) /\ ~confirm_ready[s])

\* Line 470 without the gate: every hit blocks.
must_confirm_always(s) == submit_hits(s) # <<>>

\* Line 470 without "hits and": the gate alone decides.
must_confirm_no_hits(s) == confirm_sig[s] # submit_sig(s) \/ ~confirm_ready[s]

\* Line 470.
must_confirm(s) ==
  /\ submit_hits(s) # <<>>
  /\ (confirm_sig[s] # submit_sig(s) \/ ~confirm_ready[s])

\* Lines 486-490.
new_row(s) ==
  <<ts_iso_of(now), date_str_of(now), Strip(form[s].company),
    Strip(form[s].contact_name), profile_brand[s], Strip(profile_name[s]),
    Strip(form[s].notes), email_hash_of(form[s].email), phone_hash_of(form[s].phone)>>

\* A run that only renders: the live preview of line 427 and the today view.
\* Without admin mode the sidebar has no admin button to act on.
Render(s) ==
  /\ pc[s] = "loaded"
  /\ event[s] # "submit"
  /\ event[s] \in AdminEvents => ~is_admin(s)
  /\ matcher_calls' = [matcher_calls EXCEPT ![s] = 1]
  /\ EndRun(s)
  /\ UNCHANGED <<store, now, admin_pin_secret, opening, call, session_state, admin_entered,
                 message, ledger_read>>

\* Lines 455-461: a validation fails (after the live preview of line 427).
SubmitRejected(s) ==
  /\ pc[s] = "loaded"
  /\ event[s] = "submit"
  /\ validation(s) # "ok"
  /\ matcher_calls' = [matcher_calls EXCEPT ![s] = 1]
  /\ message' = [message EXCEPT ![s] = validation(s)]
  /\ EndRun(s)
  /\ UNCHANGED <<store, now, admin_pin_secret, opening, call, session_state, admin_entered,
                 ledger_read>>

\* Lines 470-479: duplicates found and not yet confirmed.
SubmitBlocked(s) ==
  /\ pc[s] = "loaded"
  /\ event[s] = "submit"
  /\ validation(s) = "ok"
  /\ must_confirm(s)
  /\ confirm_sig' = [confirm_sig EXCEPT ![s] = submit_sig(s)]
  /\ confirm_ready' = [confirm_ready EXCEPT ![s] = TRUE]
  /\ armed_form' = [armed_form EXCEPT ![s] = form[s]]
  /\ surfaced' = [surfaced EXCEPT ![s] = hit_rows(submit_hits(s))]
  /\ matcher_calls' = [matcher_calls EXCEPT ![s] = 2]
  /\ message' = [message EXCEPT ![s] = "blocked"]
  /\ EndRun(s)
  /\ UNCHANGED <<store, now, admin_pin_secret, opening, call, profile_name, profile_brand, form,
                 admin_entered, ledger_read>>

\* Lines 481-498: the row is appended; the gate and, through the rerun of
\* line 498 (lines 388-391), the form are cleared.
SubmitAppend(s) ==
  /\ pc[s] = "loaded"
  /\ event[s] = "submit"
  /\ validation(s) = "ok"
  /\ ~must_confirm(s)
  /\ Len(ledger) < MaxRows
  /\ ledger' = Append(ledger, new_row(s))
  /\ confirm_sig' = [confirm_sig EXCEPT ![s] = None]
  /\ confirm_ready' = [confirm_ready EXCEPT ![s] = FALSE]
  /\ armed_form' = [armed_form EXCEPT ![s] = EmptyForm]
  /\ surfaced' = [surfaced EXCEPT ![s] = {}]
  /\ form' = [form EXCEPT ![s] = EmptyForm]
  /\ matcher_calls' = [matcher_calls EXCEPT ![s] = 2]
  /\ message' = [message EXCEPT ![s] = "accepted"]
  /\ EndRun(s)
  /\ UNCHANGED <<archive, archive_header, now, admin_pin_secret, opening, call, profile_name,
                 profile_brand, admin_entered, ledger_read>>

\* Lines 493-500 with the gate reset of lines 495-496 moved above the append.
SubmitAppendFailsGateReset(s) ==
  /\ pc[s] = "loaded"
  /\ event[s] = "submit"
  /\ validation(s) = "ok"
  /\ ~must_confirm(s)
  /\ confirm_sig' = [confirm_sig EXCEPT ![s] = None]
  /\ confirm_ready' = [confirm_ready EXCEPT ![s] = FALSE]
  /\ matcher_calls' = [matcher_calls EXCEPT ![s] = 2]
  /\ message' = [message EXCEPT ![s] = "failed"]
  /\ EndRun(s)
  /\ UNCHANGED <<store, now, admin_pin_secret, opening, call, profile_name, profile_brand,
                 form, armed_form, surfaced, admin_entered, ledger_read>>

\* Lines 499-500: ws.append_row raised.
SubmitAppendFails(s) ==
  /\ pc[s] = "loaded"
  /\ event[s] = "submit"
  /\ validation(s) = "ok"
  /\ ~must_confirm(s)
  /\ matcher_calls' = [matcher_calls EXCEPT ![s] = 2]
  /\ message' = [message EXCEPT ![s] = "failed"]
  /\ EndRun(s)
  /\ UNCHANGED <<store, now, admin_pin_secret, opening, call, session_state, admin_entered,
                 ledger_read>>

\* --------------------------------------------------------- admin actions
\* enumerate(values[1:], start=2) filtered on row[1] == today_str: the sheet
\* rows (the header is sheet row 1) whose Date is the day, ascending.
RECURSIVE rows_dated(_, _, _)
rows_dated(vals, day, idx) ==
  IF vals = <<>> THEN <<>>
  ELSE (IF Len(Head(vals)) >= 2 /\ Head(vals)[ColDate] = day THEN <<idx>> ELSE <<>>)
         \o rows_dated(Tail(vals), day, idx + 1)

\* ws.delete_rows(r): the rows below move up; a row beyond the data is blank.
delete_rows(led, r) ==
  IF r - 1 \in 1..Len(led)
  THEN SubSeq(led, 1, r - 2) \o SubSeq(led, r, Len(led))
  ELSE led

\* ws.delete_rows(2, ws.row_count): every row below the header.
delete_all_rows(led) == <<>>

\* row[:7]
upto_notes(row) == SubSeq(row, 1, IF Len(row) < 7 THEN Len(row) ELSE 7)

ARCHIVE_HEADER ==
  <<"Timestamp", "Date", "Company", "Contact Name", "Brand", "Locked By", "Notes">>

\* get_or_create_archive: the header the Archive worksheet has afterwards.
get_or_create_archive == IF archive_header = <<>> THEN ARCHIVE_HEADER ELSE archive_header

\* Lines 339-347: an admin button acts only in admin mode.
Dispatch(s, ev) == pc[s] = "loaded" /\ event[s] = ev /\ is_admin(s)

\* Lines 296-303 and 313-322: the worksheet is read and today's rows chosen.
ReadToday(s, archiving, next) ==
  LET day == date_str_of(now)
      nums == rows_dated(ledger, day, 2)
  IN  IF nums = <<>>
      THEN /\ message' = [message EXCEPT ![s] = "no_rows"]
           /\ EndRun(s)
      ELSE /\ values' = [values EXCEPT ![s] = ledger]
           /\ today_str' = [today_str EXCEPT ![s] = day]
           /\ row_numbers' = [row_numbers EXCEPT ![s] = nums]
           /\ rows_to_archive' = [rows_to_archive EXCEPT ![s] =
                IF archiving
                THEN [i \in 1..Len(nums) |-> upto_notes(ledger[nums[i] - 1])]
                ELSE <<>>]
           /\ pc' = [pc EXCEPT ![s] = next]
           /\ df' = [df EXCEPT ![s] = <<>>]
           /\ UNCHANGED <<event, message>>

\* The loop of lines 304-305 without reversed(): the lowest row goes first.
DeleteFirst(s, done) ==
  LET n == Len(row_numbers[s])
  IN  /\ ledger' = delete_rows(ledger, row_numbers[s][1])
      /\ IF n = 1
         THEN /\ message' = [message EXCEPT ![s] = done]
              /\ EndRun(s)
         ELSE /\ row_numbers' = [row_numbers EXCEPT ![s] = Tail(row_numbers[s])]
              /\ UNCHANGED <<pc, event, df, values, today_str, rows_to_archive, message>>

\* One pass of the loop "for r in reversed(...): ws.delete_rows(r)" of
\* lines 304-305 and 325-326; the routine returns after the last one.
DeleteLast(s, done) ==
  LET n == Len(row_numbers[s])
  IN  /\ ledger' = delete_rows(ledger, row_numbers[s][n])
      /\ IF n = 1
         THEN /\ message' = [message EXCEPT ![s] = done]
              /\ EndRun(s)
         ELSE /\ row_numbers' = [row_numbers EXCEPT ![s] = SubSeq(row_numbers[s], 1, n - 1)]
              /\ UNCHANGED <<pc, event, df, values, today_str, rows_to_archive, message>>

\* Lines 323-324 without the append_rows call: the routine goes on to delete.
CopyNothing(s, next) ==
  /\ archive_header' = get_or_create_archive
  /\ pc' = [pc EXCEPT ![s] = next]
  /\ UNCHANGED <<ledger, archive, now, admin_pin_secret, opening, call, session_state, admin_entered,
                 event, df, admin_locals, message, ledger_read, matcher_calls>>

\* Lines 323-324 and 334-335: the Archive worksheet is found or created and the
\* rows are appended to it.
CopyToArchive(s, next) ==
  /\ Len(archive) + Len(rows_to_archive[s]) <= MaxArchive
  /\ archive_header' = get_or_create_archive
  /\ archive' = archive \o rows_to_archive[s]
  /\ pc' = [pc EXCEPT ![s] = next]
  /\ UNCHANGED <<ledger, now, admin_pin_secret, opening, call, session_state, admin_entered, event,
                 df, admin_locals, message, ledger_read, matcher_calls>>

\* admin_clear_today
AdminClearTodayRead(s) ==
  /\ Dispatch(s, "reset_today")
  /\ ReadToday(s, FALSE, "clear_today")
  /\ UNCHANGED <<store, now, admin_pin_secret, opening, call, session_state, admin_entered,
                 ledger_read, matcher_calls>>

AdminClearTodayDelete(s) ==
  /\ pc[s] = "clear_today"
  /\ DeleteLast(s, "deleted")
  /\ UNCHANGED <<archive, archive_header, now, admin_pin_secret, opening, call, session_state,
                 admin_entered, ledger_read, matcher_calls>>

\* admin_clear_all
AdminClearAll(s) ==
  /\ Dispatch(s, "reset_all")
  /\ ledger' = delete_all_rows(ledger)
  /\ message' = [message EXCEPT ![s] = "cleared"]
  /\ EndRun(s)
  /\ UNCHANGED <<archive, archive_header, now, admin_pin_secret, opening, call, session_state,
                 admin_entered, ledger_read, matcher_calls>>

\* admin_archive_today_and_clear
AdminArchiveTodayRead(s) ==
  /\ Dispatch(s, "archive_today")
  /\ ReadToday(s, TRUE, "archive_today_copy")
  /\ UNCHANGED <<store, now, admin_pin_secret, opening, call, session_state, admin_entered,
                 ledger_read, matcher_calls>>

AdminArchiveTodayCopy(s) ==
  /\ pc[s] = "archive_today_copy"
  /\ CopyToArchive(s, "archive_today_delete")

AdminArchiveTodayDelete(s) ==
  /\ pc[s] = "archive_today_delete"
  /\ DeleteLast(s, "archived")
  /\ UNCHANGED <<archive, archive_header, now, admin_pin_secret, opening, call, session_state,
                 admin_entered, ledger_read, matcher_calls>>

\* admin_archive_all_and_clear, lines 330-333.
AdminArchiveAllRead(s) ==
  /\ Dispatch(s, "archive_all")
  /\ IF ledger = <<>>
     THEN /\ message' = [message EXCEPT ![s] = "no_rows"]
          /\ EndRun(s)
     ELSE /\ values' = [values EXCEPT ![s] = ledger]
          /\ rows_to_archive' = [rows_to_archive EXCEPT ![s] =
               [i \in 1..Len(ledger) |-> upto_notes(ledger[i])]]
          /\ pc' = [pc EXCEPT ![s] = "archive_all_copy"]
          /\ df' = [df EXCEPT ![s] = <<>>]
          /\ UNCHANGED <<event, today_str, row_numbers, message>>
  /\ UNCHANGED <<store, now, admin_pin_secret, opening, call, session_state, admin_entered,
                 ledger_read, matcher_calls>>

AdminArchiveAllCopy(s) ==
  /\ pc[s] = "archive_all_copy"
  /\ CopyToArchive(s, "archive_all_delete")

\* Line 336.
AdminArchiveAllDelete(s) ==
  /\ pc[s] = "archive_all_delete"
  /\ ledger' = delete_all_rows(ledger)
  /\ message' = [message EXCEPT ![s] = "archived"]
  /\ EndRun(s)
  /\ UNCHANGED <<archive, archive_header, now, admin_pin_secret, opening, call, session_state,
                 admin_entered, ledger_read, matcher_calls>>

AdminPcs ==
  {"clear_today", "archive_today_copy", "archive_today_delete", "archive_all_copy",
   "archive_all_delete"}

\* A call to the store raises inside an admin routine: nothing catches it, the
\* run ends where it stands.
AdminStoreError(s) ==
  /\ \/ pc[s] \in AdminPcs
     \/ pc[s] = "loaded" /\ event[s] \in AdminEvents /\ is_admin(s)
  /\ message' = [message EXCEPT ![s] = "error"]
  /\ EndRun(s)
  /\ UNCHANGED <<store, now, admin_pin_secret, opening, call, session_state, admin_entered,
                 ledger_read, matcher_calls>>

\* ------------------------------------------------------- the specification
\* The lock form.
LockStep(s, F) ==
  \/ SaveProfile(s)
  \/ PressLock(s, F)
  \/ SubmitRejected(s)
  \/ SubmitBlocked(s)
  \/ SubmitAppend(s)
  \/ SubmitAppendFails(s)

\* The sidebar and the admin routines.
AdminStep(s, P, E) ==
  \/ TypePin(s, P)
  \/ PressAdmin(s, E)
  \/ Render(s)
  \/ AdminClearTodayRead(s)
  \/ AdminClearTodayDelete(s)
  \/ AdminClearAll(s)
  \/ AdminArchiveTodayRead(s)
  \/ AdminArchiveTodayCopy(s)
  \/ AdminArchiveTodayDelete(s)
  \/ AdminArchiveAllRead(s)
  \/ AdminArchiveAllCopy(s)
  \/ AdminArchiveAllDelete(s)
  \/ AdminStoreError(s)

\* Two sessions on a new sheet, within one day: both submit BaseForm, s2 also
\* the form without a company; s1 is the one who types the PIN "1" and presses
\* the admin buttons.
FormsOf(s) ==
  IF s = "s1" THEN {BaseForm} ELSE {BaseForm, [BaseForm EXCEPT !.company = <<>>]}

PinsOf(s) == IF s = "s1" THEN {<<"1">>} ELSE {}

AdminEventsOf(s) == IF s = "s1" THEN AdminEvents ELSE {}

Next ==
  \/ \E s \in Sessions : LockStep(s, FormsOf(s))
  \/ \E s \in Sessions : AdminStep(s, PinsOf(s), AdminEventsOf(s))

Spec == Init /\ [][Next]_vars

\* One session at the lock form, retyping it field by field; the admin
\* routine it can run is admin_clear_all.
InitLock == Init /\ profile_name["s2"] = <<>>

NextLock ==
  \/ LockStep("s1", Forms)
  \/ TypePin("s1", {<<"1">>})
  \/ PressAdmin("s1", {"reset_all"})
  \/ Render("s1")
  \/ AdminClearAll("s1")

SpecLock == InitLock /\ [][NextLock]_vars

\* One session at the lock form that types blanks: an email or a company of
\* one space, a phone without a digit, or no email or phone at all.
BlankForms ==
  {BaseForm,
   [BaseForm EXCEPT !.email = <<" ">>],
   [BaseForm EXCEPT !.phone = <<"-">>],
   [BaseForm EXCEPT !.email = <<>>],
   [BaseForm EXCEPT !.email = <<" ">>, !.phone = <<>>],
   [BaseForm EXCEPT !.email = <<>>, !.phone = <<"-">>],
   [BaseForm EXCEPT !.email = <<>>, !.phone = <<>>],
   [BaseForm EXCEPT !.company = <<" ">>],
   [BaseForm EXCEPT !.contact_name = <<" ">>],
   [BaseForm EXCEPT !.contact_name = <<>>]}

NextBlank == LockStep("s1", BlankForms)

SpecBlank == InitLock /\ [][NextBlank]_vars

\* find_duplicates applied on its own to every snapshot of up to MaxSnapshot
\* rows, with and without each key, and every candidate.
MatchRow(company, email_hash, phone_hash) ==
  <<ts_iso_of(0), date_str_of(0), company, <<"a">>, <<"D">>, <<"b">>, <<>>,
    email_hash, phone_hash>>

MatchRows ==
  {MatchRow(c, e, p) : c \in {<<>>, <<"a">>},
                       e \in {<<>>, email_hash_of(<<"a">>)},
                       p \in {<<>>, phone_hash_of(<<"1">>)}}

MatcherInputs ==
  {<<d, c, e, p>> : d \in UNION {[1..n -> MatchRows] : n \in 0..MaxSnapshot},
                    c \in {<<>>, <<"a">>, <<"b">>},
                    e \in {<<>>, email_hash_of(<<"a">>), email_hash_of(<<"b">>)},
                    p \in {<<>>, phone_hash_of(<<"1">>)}}

InitMatcher ==
  /\ Boot(<<>>)
  /\ admin_pin_secret = <<>>
  /\ \A s \in Sessions : profile_name[s] = <<>>
  /\ Opened
  /\ call_arg \in MatcherInputs
  /\ call_ret = <<>>

\* Everything but the application of a function stands still.
AppIdle ==
  UNCHANGED <<store, now, admin_pin_secret, opening, session_state, admin_entered,
              run_locals, message, ledger_read, matcher_calls>>

CallFindDuplicates ==
  /\ call_ret = <<>>
  /\ call_ret' = <<"find_duplicates",
                   find_duplicates(call_arg[1], call_arg[2], call_arg[3], call_arg[4])>>
  /\ UNCHANGED call_arg
  /\ AppIdle

SpecMatcher == InitMatcher /\ [][CallFindDuplicates]_vars

\* The today view on its own, applied on either day to every snapshot of up
\* to MaxSnapshot rows of two days, each with a company and with or without
\* an email digest and a phone digest.  The rows of a day carry one Timestamp,
\* so the view lists them in the order of the snapshot.
ViewRow(day, company, email_hash, phone_hash) ==
  <<ts_iso_of(day * TicksPerDay), date_str_of(day * TicksPerDay), company, <<"a">>,
    <<"D">>, <<"b">>, <<>>, email_hash, phone_hash>>

ViewRows ==
  {ViewRow(d, c, e, p) : d \in {0, 1},
                         c \in {<<"a">>, <<"b">>},
                         e \in {<<>>, email_hash_of(<<"a">>), email_hash_of(<<"b">>)},
                         p \in {<<>>, phone_hash_of(<<"1">>)}}

InitView ==
  /\ Boot(<<>>)
  /\ admin_pin_secret = <<>>
  /\ \A s \in Sessions : profile_name[s] = <<>>
  /\ Opened
  /\ \E d \in UNION {[1..n -> ViewRows] : n \in 0..MaxSnapshot}, today \in {0, 1} :
       call_arg = <<d, today>>
  /\ call_ret = <<>>

CallTodayView ==
  /\ call_ret = <<>>
  /\ call_ret' = <<"today_view", today_view(call_arg[1], call_arg[2])>>
  /\ UNCHANGED call_arg
  /\ AppIdle

SpecView == InitView /\ [][CallTodayView]_vars

\* normalize_text and normalize_phone on their own: each is applied to a text
\* of up to MaxTextLen characters and to a text that differs from it in
\* formatting only, and then to its own result.
Alphabet == {" ", "a", "A", "b", "1", "-"}

Texts == UNION {[1..n -> Alphabet] : n \in 0..MaxTextLen}

SwapCase(c) ==
  IF c = "a" THEN "A" ELSE IF c = "A" THEN "a" ELSE IF c = "b" THEN "B" ELSE c

InsertAt(t, i, c) == SubSeq(t, 1, i) \o <<c>> \o SubSeq(t, i + 1, Len(t))

\* The text itself, and the texts one step of formatting away: one letter in
\* the other case, a space more at either end, a space more in a run of spaces.
TextVariants(t) ==
  {t, <<" ">> \o t, t \o <<" ">>}
    \cup {[t EXCEPT ![i] = SwapCase(t[i])] : i \in 1..Len(t)}
    \cup {InsertAt(t, i, " ") : i \in {j \in 1..Len(t) : t[j] = " "}}

\* The phone itself, and the phones with one more character that is no digit.
PhoneVariants(t) ==
  {t} \cup {InsertAt(t, i, c) : i \in 0..Len(t), c \in {" ", "-", "a"}}

InitNormalize ==
  /\ Boot(<<>>)
  /\ admin_pin_secret = <<>>
  /\ \A s \in Sessions : profile_name[s] = <<>>
  /\ Opened
  /\ \E t \in Texts :
       \/ \E u \in TextVariants(t) : call_arg = <<"normalize_text", t, u>>
       \/ \E u \in PhoneVariants(t) : call_arg = <<"normalize_phone", t, u>>
  /\ call_ret = <<>>

\* The function is applied to both texts, then to its result for the first.
CallNormalizeText ==
  /\ call_arg[1] = "normalize_text"
  /\ Len(call_ret) < 3
  /\ call_ret' = IF call_ret = <<>>
                 THEN <<normalize_text(call_arg[2]), normalize_text(call_arg[3])>>
                 ELSE Append(call_ret, normalize_text(call_ret[1]))
  /\ UNCHANGED call_arg
  /\ AppIdle

CallNormalizePhone ==
  /\ call_arg[1] = "normalize_phone"
  /\ Len(call_ret) < 3
  /\ call_ret' = IF call_ret = <<>>
                 THEN <<normalize_phone(call_arg[2]), normalize_phone(call_arg[3])>>
                 ELSE Append(call_ret, normalize_phone(call_ret[1]))
  /\ UNCHANGED call_arg
  /\ AppIdle

NextNormalize == CallNormalizeText \/ CallNormalizePhone

SpecNormalize == InitNormalize /\ [][NextNormalize]_vars

\* A sheet of before the digests, with up to MaxLegacyRows rows, is opened and
\* migrated, with every call of the migration failing or not; one session
\* then submits BaseForm, and the sheet is opened again.
LegacyRow(company) ==
  <<ts_iso_of(0), date_str_of(0), company, <<"a">>, <<"c">>, <<"2">>, <<"D">>, <<"b">>,
    <<"a">>>>

LegacySheets ==
  {<<LEGACY_HEADER, rows>> :
     rows \in UNION {[1..n -> {LegacyRow(<<"a">>), LegacyRow(<<"b">>)}] :
                       n \in 0..MaxLegacyRows}}

InitMigrate ==
  /\ \E sheet \in LegacySheets :
       /\ Boot(sheet[2])
       /\ header = sheet[1]
       /\ call_arg = sheet
  /\ open_pc = "closed"
  /\ call_ret = <<>>
  /\ admin_pin_secret = <<>>
  /\ profile_name["s2"] = <<>>

NextMigrate == OpenSheet \/ LockStep("s1", {BaseForm, EmptyForm})

SpecMigrate == InitMigrate /\ [][NextMigrate]_vars

\* The check-then-act race under way: both sessions have pressed "Lock
\* Contact" on an empty sheet, with forms that share a key, and both runs hold
\* the empty snapshot.  The users then only look.
RaceForms ==
  {BaseForm,
   [BaseForm EXCEPT !.email = <<"b">>, !.phone = <<"2">>],
   [BaseForm EXCEPT !.company = <<"b">>, !.phone = <<"2">>],
   [BaseForm EXCEPT !.company = <<"b">>, !.email = <<"b">>]}

InitRace ==
  /\ ledger = <<>>
  /\ archive = <<>>
  /\ archive_header = <<>>
  /\ now = 0
  /\ admin_pin_secret = <<>>
  /\ Opened
  /\ NoCall
  /\ profile_name = [s \in Sessions |-> ProfileNameOf(s)]
  /\ profile_brand = [s \in Sessions |-> <<"D">>]
  /\ confirm_sig = [s \in Sessions |-> None]
  /\ confirm_ready = [s \in Sessions |-> FALSE]
  /\ \E f \in RaceForms : form = [s \in Sessions |-> IF s = "s1" THEN BaseForm ELSE f]
  /\ armed_form = [s \in Sessions |-> EmptyForm]
  /\ surfaced = [s \in Sessions |-> {}]
  /\ admin_entered = [s \in Sessions |-> <<>>]
  /\ pc = [s \in Sessions |-> "loaded"]
  /\ event = [s \in Sessions |-> "submit"]
  /\ df = [s \in Sessions |-> <<>>]
  /\ values = [s \in Sessions |-> <<>>]
  /\ today_str = [s \in Sessions |-> 0]
  /\ row_numbers = [s \in Sessions |-> <<>>]
  /\ rows_to_archive = [s \in Sessions |-> <<>>]
  /\ message = [s \in Sessions |-> "none"]
  /\ ledger_read = [s \in Sessions |-> TRUE]
  /\ matcher_calls = [s \in Sessions |-> 0]

NextRace ==
  \/ Tick
  \/ \E s \in Sessions : SubmitAppend(s)
  \/ \E s \in Sessions : SubmitAppendFails(s)
  \/ \E s \in Sessions : Look(s)
  \/ \E s \in Sessions : Render(s)

SpecRace == InitRace /\ [][NextRace]_vars

\* One admin session on a sheet that already holds rows, of two days and in
\* any order, while the clock runs.
SampleRow(ts, company) ==
  <<ts_iso_of(ts), date_str_of(ts), company, <<"a">>, <<"D">>, <<"b">>, <<>>,
    email_hash_of(<<"a">>), phone_hash_of(<<"1">>)>>

SampleRows == {SampleRow(ts, c) : ts \in 0..MaxClock, c \in {<<"a">>, <<"b">>}}

SampleLedgers == UNION {[1..n -> SampleRows] : n \in 0..MaxInitRows}

InitAdmin ==
  /\ \E led \in SampleLedgers : Boot(led)
  /\ Opened
  /\ NoCall
  /\ profile_name["s1"] # <<>>
  /\ profile_name["s2"] = <<>>

NextAdmin == Tick \/ AdminStep("s1", PinsEntered, AdminEvents)

SpecAdmin == InitAdmin /\ [][NextAdmin]_vars

\* ------------------------------------------------------------ properties
\* The gate of a session (lines 209-212, 471-472, 495-496).
GateClear(s) == confirm_sig[s] = None /\ ~confirm_ready[s]

GateArmedWith(s, sig) == confirm_ready[s] /\ confirm_sig[s] = sig

\* The three values the signature of line 468 is made of.
KeysOf(f) ==
  <<email_hash_of(f.email), phone_hash_of(f.phone), normalize_text(f.company)>>

\* The submit handler of session s is about to decide a valid submission.
ValidSubmission(s) ==
  pc[s] = "loaded" /\ event[s] = "submit" /\ validation(s) = "ok"

\* What a step that ends the handler of session s did.
Blocked(s) ==
  /\ message'[s] = "blocked"
  /\ confirm_ready'[s]
  /\ confirm_sig'[s] = submit_sig(s)
  /\ ledger' = ledger

Accepted(s) ==
  /\ message'[s] = "accepted"
  /\ ledger' = Append(ledger, new_row(s))
  /\ confirm_sig'[s] = None
  /\ ~confirm_ready'[s]

SaveFailed(s) ==
  /\ message'[s] = "failed"
  /\ ledger' = ledger
  /\ confirm_sig'[s] = confirm_sig[s]
  /\ confirm_ready'[s] = confirm_ready[s]

\* C1: a valid submission with at least one hit, made while the gate is Clear
\* or Armed with another signature, is reported as blocked, arms the gate with
\* its own signature and appends nothing.
C1_BlockStep ==
  [][\A s \in Sessions :
       (/\ ValidSubmission(s)
        /\ submit_hits(s) # <<>>
        /\ (GateClear(s) \/ (confirm_ready[s] /\ confirm_sig[s] # submit_sig(s)))
        /\ pc'[s] = "idle")
       => Blocked(s)]_vars

\* A submission was blocked on a Ledger that holds a row, and the gate is armed
\* with the signature of the form that was submitted.
C1_Witness ==
  /\ pc["s1"] = "idle"
  /\ message["s1"] = "blocked"
  /\ ledger # <<>>
  /\ armed_form["s1"] # EmptyForm
  /\ GateArmedWith("s1", sig_of(KeysOf(armed_form["s1"])[1], KeysOf(armed_form["s1"])[2],
                               KeysOf(armed_form["s1"])[3]))

\* C2, as the code has it: a valid submission with at least one hit whose
\* signature is the armed one makes one append attempt; when the append
\* succeeds exactly one row is appended and the gate returns to Clear, when it
\* fails nothing is appended and the gate stays Armed with that signature.
C2_ConfirmStep ==
  [][\A s \in Sessions :
       (/\ ValidSubmission(s)
        /\ submit_hits(s) # <<>>
        /\ GateArmedWith(s, submit_sig(s))
        /\ pc'[s] = "idle")
       => (Accepted(s) \/ SaveFailed(s))]_vars

\* C2 as stated: the identical resubmission always appends exactly one row and
\* clears the gate.
C2_AsStated ==
  [][\A s \in Sessions :
       (/\ ValidSubmission(s)
        /\ submit_hits(s) # <<>>
        /\ GateArmedWith(s, submit_sig(s))
        /\ pc'[s] = "idle")
       => (/\ Len(ledger') = Len(ledger) + 1
           /\ confirm_sig'[s] = None
           /\ ~confirm_ready'[s])]_vars

\* A confirmed duplicate: the second row carries the email digest of the first,
\* the submission was accepted and the gate is Clear.
C2_Witness ==
  /\ Len(ledger) = 2
  /\ ledger[1][ColEmailHash] # <<>>
  /\ ledger[2][ColEmailHash] = ledger[1][ColEmailHash]
  /\ message["s1"] = "accepted"
  /\ GateClear("s1")

\* C3, as the code has it: a valid submission with no hit is never blocked,
\* whatever the gate holds; it makes one append attempt, and the gate becomes
\* Clear when the append succeeds and is left as it was when the append fails.
C3_CleanSubmission ==
  [][\A s \in Sessions :
       (/\ ValidSubmission(s)
        /\ submit_hits(s) = <<>>
        /\ pc'[s] = "idle")
       => (Accepted(s) \/ SaveFailed(s))]_vars

\* C3 as stated: a valid submission with no hit goes to the write and leaves
\* the gate Clear, whatever the gate held before.
C3_AsStated ==
  [][\A s \in Sessions :
       (/\ ValidSubmission(s)
        /\ submit_hits(s) = <<>>
        /\ pc'[s] = "idle")
       => (/\ message'[s] \in {"accepted", "failed"}
           /\ confirm_sig'[s] = None
           /\ ~confirm_ready'[s])]_vars

\* A submission on an empty Ledger (so without a hit) failed to save while the
\* gate was armed: the armed gate is still there.
C3_Witness ==
  /\ ledger = <<>>
  /\ message["s1"] = "failed"
  /\ confirm_ready["s1"]
  /\ armed_form["s1"] # EmptyForm

\* C4, as the code has it: after a submission armed the gate, a next valid
\* submission that still has a hit and differs from it in some field is
\* blocked again, with nothing appended, exactly when the change alters the
\* signature (the email digest, the phone digest or the company key); a change
\* that leaves the signature alone (contact name, notes, the case of the
\* company) is taken as the confirmation.
C4_ChangedField ==
  [][\A s \in Sessions :
       (/\ ValidSubmission(s)
        /\ submit_hits(s) # <<>>
        /\ confirm_ready[s]
        /\ form[s] # armed_form[s]
        /\ pc'[s] = "idle")
       => IF KeysOf(form[s]) # KeysOf(armed_form[s])
          THEN Blocked(s)
          ELSE Accepted(s) \/ SaveFailed(s)]_vars

\* C4 as stated: a next submission that differs in any field and still has a
\* hit is blocked again and appends nothing.
C4_AsStated ==
  [][\A s \in Sessions :
       (/\ ValidSubmission(s)
        /\ submit_hits(s) # <<>>
        /\ confirm_ready[s]
        /\ form[s] # armed_form[s]
        /\ pc'[s] = "idle")
       => (message'[s] = "blocked" /\ ledger' = ledger)]_vars

\* The gate is armed and the handler decides a submission with a hit that
\* differs from the arming one in contact name or notes only.
C4_Witness ==
  /\ ValidSubmission("s1")
  /\ submit_hits("s1") # <<>>
  /\ confirm_ready["s1"]
  /\ form["s1"] # armed_form["s1"]
  /\ form["s1"].company = armed_form["s1"].company
  /\ KeysOf(form["s1"]) = KeysOf(armed_form["s1"])

\* C5: the signature is the email digest, the phone digest and the company key
\* joined by "|", and a row is appended while the Matcher reports hits only by
\* a submission whose signature, and so each of its three keys, is the one the
\* gate was armed with.
C5_ConsumedBySameSignature ==
  [][\A s \in Sessions :
       (/\ ValidSubmission(s)
        /\ submit_hits(s) # <<>>
        /\ pc'[s] = "idle"
        /\ Len(ledger') = Len(ledger) + 1)
       => (/\ confirm_ready[s]
           /\ confirm_sig[s] = submit_sig(s)
           /\ submit_sig(s) = KeysOf(form[s])[1] \o <<"|">> \o KeysOf(form[s])[2]
                                \o <<"|">> \o KeysOf(form[s])[3]
           /\ KeysOf(form[s]) = KeysOf(armed_form[s]))]_vars

\* A confirmation was consumed: a row that shares the email digest of the first
\* row and has another phone digest was appended over the hit.
C5_Witness ==
  /\ Len(ledger) = 2
  /\ message["s1"] = "accepted"
  /\ ledger[1][ColEmailHash] = ledger[2][ColEmailHash]
  /\ ledger[1][ColPhoneHash] # ledger[2][ColPhoneHash]
  /\ ledger[2][ColPhoneHash] # <<>>

\* C6 as stated: a submission rejected by a validation neither read the Locks
\* worksheet nor called the Matcher in its run.
C6_AsStated ==
  \A s \in Sessions :
    message[s] \in {"profile_missing", "required_missing", "contact_missing"}
      => (~ledger_read[s] /\ matcher_calls[s] = 0)

\* The session whose run takes the step: its position or its pending deletes
\* change.
Acting(s) ==
  pc[s] # "idle" /\ (pc'[s] # pc[s] \/ row_numbers'[s] # row_numbers[s])

\* A step that deletes from the Locks worksheet or writes to the Archive one.
AdminTouchesStore ==
  \/ Len(ledger') < Len(ledger)
  \/ archive' # archive
  \/ archive_header' # archive_header

\* C7: a row of the Ledger is deleted, or the Archive written, only by the run
\* of a session whose entered PIN equals a configured (non-empty) ADMIN_PIN;
\* with no ADMIN_PIN configured no admin action does anything.
C7_AdminAuthorization ==
  [][AdminTouchesStore =>
       \E s \in Sessions :
         /\ Acting(s)
         /\ admin_pin_secret # <<>>
         /\ admin_entered[s] = admin_pin_secret]_vars

\* No ADMIN_PIN is configured and a run has an admin action to dispatch on a
\* Ledger that holds rows.
C7_Witness ==
  /\ admin_pin_secret = <<>>
  /\ pc["s1"] = "loaded"
  /\ event["s1"] \in AdminEvents
  /\ admin_entered["s1"] = <<>>
  /\ ledger # <<>>

ArchiveCopyPcs == {"archive_today_copy", "archive_all_copy"}
ArchiveDeletePcs == {"archive_today_delete", "archive_all_delete"}

\* The rows of its snapshot an archive routine selected (lines 317-320, 333).
SelectedRows(s) ==
  IF pc[s] \in {"archive_today_copy", "archive_today_delete"}
  THEN {values[s][i] : i \in {j \in 1..Len(values[s]) :
                                 values[s][j][ColDate] = today_str[s]}}
  ELSE SeqToSet(values[s])

\* C8: in an archive routine run alone, every selected row is still live while
\* the copy is pending, every selected row is in Archive (its columns up to
\* Notes) by the time the deletes begin, a row leaves the Ledger only after its
\* copy is in Archive, and an error raised after the copy leaves every
\* selected row in Archive, in the Ledger or in both.
C8_CopyBeforeDelete ==
  /\ [](\A s \in Sessions :
          /\ pc[s] \in ArchiveCopyPcs =>
               \A r \in SelectedRows(s) : r \in SeqToSet(ledger)
          /\ pc[s] \in ArchiveDeletePcs =>
               \A r \in SelectedRows(s) : upto_notes(r) \in SeqToSet(archive))
  /\ [][\A s \in Sessions :
          /\ (pc[s] \in ArchiveCopyPcs \cup ArchiveDeletePcs /\ ledger' # ledger) =>
               /\ pc[s] \in ArchiveDeletePcs
               /\ \A r \in SeqToSet(ledger) \ SeqToSet(ledger') :
                    upto_notes(r) \in SeqToSet(archive)
          /\ (pc[s] \in ArchiveCopyPcs \cup ArchiveDeletePcs /\ message'[s] = "error") =>
               \A r \in SelectedRows(s) :
                 r \in SeqToSet(ledger') \/ upto_notes(r) \in SeqToSet(archive')]_vars

\* The copy succeeded and a delete failed: the run ended in an error and a row
\* that is in Archive is still live.
C8_Witness ==
  /\ message["s1"] = "error"
  /\ pc["s1"] = "idle"
  /\ archive # <<>>
  /\ \E i \in 1..Len(ledger) : upto_notes(ledger[i]) \in SeqToSet(archive)

\* The rows admin_clear_today still has to delete are rows of the sheet below
\* the header, in ascending order, and each is where the routine read it.
PendingValid(s) ==
  /\ \A i \in 1..Len(row_numbers[s]) :
       LET r == row_numbers[s][i]
       IN  /\ r >= 2
           /\ r - 1 <= Len(ledger)
           /\ ledger[r - 1] = values[s][r - 1]
           /\ ledger[r - 1][ColDate] = today_str[s]
  /\ \A i, j \in 1..Len(row_numbers[s]) : i < j => row_numbers[s][i] < row_numbers[s][j]

\* C9: admin_clear_today run alone deletes the highest pending row first, so
\* that every pending row number still names the row that was read; when it
\* returns, the Ledger holds exactly the rows it read whose Date is not the
\* day, in their order, whatever the order of the rows was.
C9_ClearToday ==
  /\ [](\A s \in Sessions : pc[s] = "clear_today" => PendingValid(s))
  /\ [][\A s \in Sessions :
          /\ (pc[s] = "clear_today" /\ ledger' # ledger) =>
               ledger' = delete_rows(ledger, row_numbers[s][Len(row_numbers[s])])
          /\ (pc[s] = "clear_today" /\ pc'[s] = "idle" /\ message'[s] = "deleted") =>
               ledger' = SelectSeq(values[s], LAMBDA r : r[ColDate] # today_str[s])]_vars

\* admin_clear_today read three rows, the first and the last of the day and
\* another between them, and has deleted the last one.
C9_Witness ==
  /\ pc["s1"] = "clear_today"
  /\ Len(values["s1"]) = 3
  /\ values["s1"][2][ColDate] # today_str["s1"]
  /\ row_numbers["s1"] = <<2>>
  /\ Len(ledger) = 2

\* The span of a run in which it works against the Ledger: from the snapshot
\* to the append of a submission that will be written, and from the read to
\* the last delete of an admin routine.
InLedgerSpan(s) ==
  \/ ValidSubmission(s) /\ ~must_confirm(s)
  \/ pc[s] \in AdminPcs

\* C10 as stated: the Ledger spans of two sessions never overlap.
C10_AsStated ==
  \A s, t \in Sessions : s # t => ~(InLedgerSpan(s) /\ InLedgerSpan(t))

\* C11 as stated: a row appended by a submission whose email (phone) has an
\* empty key carries the empty string as its email (phone) digest.
C11_AsStated ==
  [][\A s \in Sessions :
       (ValidSubmission(s) /\ pc'[s] = "idle" /\ Len(ledger') = Len(ledger) + 1)
       => LET row == ledger'[Len(ledger')]
          IN  /\ normalize_text(form[s].email) = <<>> => row[ColEmailHash] = <<>>
              /\ normalize_phone(form[s].phone) = <<>> => row[ColPhoneHash] = <<>>]_vars

\* The rows of hit group g of a result of find_duplicates.
GroupRows(g) == {g.rows[i] : i \in 1..Len(g.rows)}

\* C12: for every snapshot, find_duplicates gives a candidate whose three keys
\* are empty no hit group and an empty combined view, and for any candidate a
\* row is in the email (phone, company) group only with a non-empty email
\* digest (phone digest, company key) of its own.
C12_NeverFlagsEmptiness ==
  call_ret # <<>> =>
    LET r == call_ret[2]
    IN  /\ (call_arg[2] = <<>> /\ call_arg[3] = <<>> /\ call_arg[4] = <<>>) =>
             (r.hits = <<>> /\ r.combined = <<>>)
        /\ \A i \in 1..Len(r.hits) :
             \A row \in GroupRows(r.hits[i]) :
               /\ r.hits[i].label = "Exact email (hashed)" => email_h_of(row) # <<>>
               /\ r.hits[i].label = "Exact phone (hashed)" => phone_h_of(row) # <<>>
               /\ r.hits[i].label = "Fuzzy company" => company_n_of(row) # <<>>
        /\ \A row \in SeqToSet(r.combined) :
             \E i \in 1..Len(r.hits) : row \in GroupRows(r.hits[i])

\* find_duplicates returned an email group for a snapshot that also holds a
\* row without any key, which is in no group and not in the combined view.
C12_Witness ==
  /\ call_ret # <<>>
  /\ call_arg[3] # <<>>
  /\ call_arg[2] = <<>>
  /\ MatchRow(<<>>, <<>>, <<>>) \in SeqToSet(call_arg[1])
  /\ Len(call_ret[2].hits) = 1
  /\ MatchRow(<<>>, <<>>, <<>>) \notin SeqToSet(call_ret[2].combined)

\* C13 as stated: once the migration of open_sheet has failed, no submission
\* appends a row to the Locks worksheet.
C13_AsStated ==
  [][open_pc = "open_failed" => Len(ledger') <= Len(ledger)]_vars

\* C14 as stated: the Archive worksheet carries the column list of the Locks
\* worksheet, and once an archive routine has copied its rows, every row it
\* selected is in Archive equal to the live row, column for column, the
\* EmailHash and PhoneHash columns included.
C14_AsStated ==
  /\ archive_header \in {<<>>, expected_cols}
  /\ \A s \in Sessions :
       pc[s] \in ArchiveDeletePcs => \A r \in SelectedRows(s) : r \in SeqToSet(archive)

\* Two rows have the same email digest, phone digest or company key.
SharesKey(r1, r2) ==
  \/ email_h_of(r1) = email_h_of(r2)
  \/ phone_h_of(r1) = phone_h_of(r2)
  \/ company_n_of(r1) = company_n_of(r2)

\* Rows i < j of a snapshot carry one day and share a key.
RacePair(snap, i, j) ==
  /\ i < j
  /\ snap[i][ColDate] = snap[j][ColDate]
  /\ SharesKey(snap[i], snap[j])

\* Row i of a snapshot is the first of its day with each of its three values.
FirstOccurrence(snap, i) ==
  \A k \in 1..(i - 1) : snap[k][ColDate] = snap[i][ColDate] => ~SharesKey(snap[k], snap[i])

\* The view shows the row, marked or not as given.
Shown(view, row, dup) == ~view.error /\ Append(row, dup) \in SeqToSet(view.rows)

\* A run of s that will render the today view holds snapshot df[s].
Viewing(s) == pc[s] = "loaded" /\ event[s] = "view"

\* C15 as stated: after the race, every today view of a snapshot that holds
\* both rows shows both, the later one marked, and a first occurrence unmarked.
C15_AsStated ==
  \A s \in Sessions :
    Viewing(s) =>
      LET view == today_view(df[s], date_str_of(now))
      IN  \A i, j \in 1..Len(df[s]) :
            RacePair(df[s], i, j) =>
              /\ Shown(view, df[s][j], TRUE)
              /\ Shown(view, df[s][i], TRUE) \/ Shown(view, df[s][i], FALSE)
              /\ FirstOccurrence(df[s], i) => ~Shown(view, df[s][i], TRUE)

\* C15: after the race, every today view rendered on the day of the two rows
\* from a snapshot that holds both shows both, the later one marked; a row
\* that is the first of that day with each of its values is shown unmarked.
C15_RaceShowsInTodayView ==
  \A s \in Sessions :
    Viewing(s) =>
      LET view == today_view(df[s], date_str_of(now))
      IN  \A i, j \in 1..Len(df[s]) :
            (RacePair(df[s], i, j) /\ df[s][i][ColDate] = date_str_of(now)) =>
              /\ Shown(view, df[s][j], TRUE)
              /\ Shown(view, df[s][i], TRUE) \/ Shown(view, df[s][i], FALSE)
              /\ FirstOccurrence(df[s], i) =>
                   (Shown(view, df[s][i], FALSE) /\ ~Shown(view, df[s][i], TRUE))

C15_Witness ==
  /\ Viewing("s1")
  /\ Len(df["s1"]) = 2
  /\ RacePair(df["s1"], 1, 2)
  /\ df["s1"][1][ColLockedBy] # df["s1"][2][ColLockedBy]
  /\ df["s1"][1][ColDate] = date_str_of(now)
  /\ Shown(today_view(df["s1"], date_str_of(now)), df["s1"][2], TRUE)

\* C16: normalize_text and normalize_phone give their own result back when
\* applied to it, two texts that differ in case, in leading or trailing space
\* or in the length of a run of inner spaces have one text key, and two phones
\* with one digit sequence have one phone key.
C16_NormalizersIdempotent ==
  /\ Len(call_ret) >= 2 => call_ret[1] = call_ret[2]
  /\ Len(call_ret) = 3 => call_ret[3] = call_ret[1]

C16_Witness ==
  /\ call_arg[1] = "normalize_text"
  /\ call_arg[2] = <<"A", " ", "b">>
  /\ call_arg[3] = <<"A", " ", " ", "b">>
  /\ call_ret = <<<<"a", " ", "b">>, <<"a", " ", "b">>, <<"a", " ", "b">>>>

\* C17 as stated: every row a submission appends has a Company, a Contact
\* Name, a Brand and a Locked By that are not empty as stored, and comes from
\* a form whose email or phone has a key that is not empty.
C17_AsStated ==
  [][\A s \in Sessions :
       (ValidSubmission(s) /\ pc'[s] = "idle" /\ Len(ledger') = Len(ledger) + 1)
       => LET row == ledger'[Len(ledger')]
          IN  /\ row[ColCompany] # <<>>
              /\ row[ColContactName] # <<>>
              /\ row[ColBrand] # <<>>
              /\ row[ColLockedBy] # <<>>
              /\ \/ normalize_text(form[s].email) # <<>>
                 \/ normalize_phone(form[s].phone) # <<>>]_vars

\* C18: a submission that goes to the append and leaves the Locks worksheet as
\* it was reports the failure, keeps the gate and the form as they were and
\* ends its run; and the worksheet grows only by one row at a time, in the step
\* that ends the run of a pressed "Lock Contact".
C18_AppendFailure ==
  [][/\ \A s \in Sessions :
          (ValidSubmission(s) /\ ~must_confirm(s) /\ pc'[s] # pc[s] /\ ledger' = ledger)
          => /\ message'[s] = "failed"
             /\ pc'[s] = "idle"
             /\ confirm_sig'[s] = confirm_sig[s]
             /\ confirm_ready'[s] = confirm_ready[s]
             /\ form'[s] = form[s]
     /\ Len(ledger') > Len(ledger)
          => /\ Len(ledger') = Len(ledger) + 1
             /\ \E s \in Sessions : ValidSubmission(s) /\ pc'[s] = "idle"]_vars

C18_Witness ==
  /\ message["s1"] = "failed"
  /\ pc["s1"] = "idle"
  /\ confirm_ready["s1"]
  /\ form["s1"] = armed_form["s1"]
  /\ form["s1"] # EmptyForm
  /\ ledger # <<>>

\* The header carries both digest columns and no column of raw contact data.
Migrated(hdr) ==
  /\ "EmailHash" \in SeqToSet(hdr)
  /\ "PhoneHash" \in SeqToSet(hdr)
  /\ "Email" \notin SeqToSet(hdr)
  /\ "Phone" \notin SeqToSet(hdr)

\* The columns of the legacy sheet that hold no raw contact data.
NonPII == {"Timestamp", "Date", "Company", "Contact Name", "Brand", "Locked By", "Notes"}

\* The step in which open_sheet returns with every call of its migration done.
MigrationCompletes == open_pc # "open" /\ open_pc' = "open"

\* C19: a migration that completes on a sheet with the legacy header leaves
\* exactly the header of the digests, with as many rows, each cell of a
\* column without contact data still under the name of its column and the
\* digest cells empty; and a migration that completes on a sheet whose header
\* is migrated already leaves the sheet as it was handed over.
C19_MigrationIdempotent ==
  [][MigrationCompletes =>
       /\ call_arg[1] = LEGACY_HEADER =>
            /\ header' = expected_cols
            /\ Len(ledger') = Len(call_arg[2])
            /\ \A i \in 1..Len(call_arg[2]) :
                 /\ \A col \in NonPII :
                      Cell(header', ledger'[i], col) = Cell(LEGACY_HEADER, call_arg[2][i], col)
                 /\ Cell(header', ledger'[i], "EmailHash") = <<>>
                 /\ Cell(header', ledger'[i], "PhoneHash") = <<>>
       /\ Migrated(call_arg[1]) => (header' = call_arg[1] /\ ledger' = call_arg[2])]_vars

\* A legacy sheet with a row has been migrated, opened again and migrated
\* again.
C19_Witness ==
  /\ open_pc = "open"
  /\ call_arg[1] = expected_cols
  /\ header = expected_cols
  /\ ledger = call_arg[2]
  /\ \E i \in 1..Len(ledger) : Len(ledger[i]) = 7 /\ Cell(header, ledger[i], "Brand") = <<"D">>

\* C20 as stated: when a submission is appended while the Matcher reports
\* hits, every row of those hits was among the rows shown by the blocked
\* submission that armed the gate.
C20_AsStated ==
  [][\A s \in Sessions :
       (/\ ValidSubmission(s)
        /\ submit_hits(s) # <<>>
        /\ pc'[s] = "idle"
        /\ Len(ledger') = Len(ledger) + 1)
       => hit_rows(submit_hits(s)) \subseteq surfaced[s]]_vars

\* C21 as stated: under every interleaving, each row a step of an archive
\* routine removes from the Locks worksheet is in Archive (its columns up to
\* Notes) and is a row the routine read in its snapshot.
C21_AsStated ==
  [][\A s \in Sessions :
       (pc[s] \in ArchiveDeletePcs /\ Acting(s) /\ Len(ledger') < Len(ledger))
       => \A r \in SeqToSet(ledger) \ SeqToSet(ledger') :
            /\ upto_notes(r) \in SeqToSet(archive)
            /\ r \in SeqToSet(values[s])]_vars

\* C22 as stated: the today view marks a row only if an earlier row of the day
\* has its email digest, its phone digest or its company key, and that value
\* is not empty.
C22_AsStated ==
  call_ret # <<>> =>
    LET t == today_df_of(call_arg[1], call_arg[2])
        view == call_ret[2]
    IN  ~view.error =>
          \A i \in 1..Len(view.rows) :
            view.rows[i][ColDupToday] =>
              \E j \in 1..(i - 1) :
                \/ email_h_of(t[j]) = email_h_of(t[i]) /\ email_h_of(t[i]) # <<>>
                \/ phone_h_of(t[j]) = phone_h_of(t[i]) /\ phone_h_of(t[i]) # <<>>
                \/ company_n_of(t[j]) = company_n_of(t[i]) /\ company_n_of(t[i]) # <<>>

====
